---- MODULE Spec2Model ----
(***************************************************************************)
(* Rating and invoicing engine of FreightInvoiceAgent: rate resolution,    *)
(* surcharge selection, charge calculation, invoice numbering and the      *)
(* invoice / payment lifecycle, with the store shared by concurrent        *)
(* request handlers.                                                       *)
(*                                                                         *)
(* Units.  Money is an integer number of cents.  A quantity is an integer  *)
(* number of tenths (cbm 0.5 is 5, 2 containers are 20).  A surcharge      *)
(* amount is stored in hundredths (75.00 is 7500, 3 percent is 300).  An   *)
(* unrounded ocean-freight total is kept in tenths of a cent.  Dates are   *)
(* day numbers.  An optional column is a sequence of length 0 (NULL) or 1. *)
(***************************************************************************)
EXTENDS Integers, Sequences, FiniteSets, TLC

VARIABLES
    invoices,   \* table invoices, in id order (the id is the index)
    lines,      \* table invoice_lines, in id order
    payments,   \* table payments, in id order
    today,      \* date.today()
    last,       \* what the request that completed last returned
    pc,         \* per request handler: where it stands in its operation
    loc,        \* per request handler: what its session has loaded
    wlock       \* the handler holding the store's write transaction, or 0

vars == <<invoices, lines, payments, today, last, pc, loc, wlock>>

----------------------------------------------------------------------------
(* Bounds of the model *)

MaxDay == 2          \* the last day of the lifecycle runs
MaxPayments == 2     \* payments recorded in a lifecycle run
NumWorkers == 2      \* request handlers running concurrently

----------------------------------------------------------------------------
(* Program constants *)

LCL_MIN_THRESHOLD == 120
DefaultPaymentTerms == 30
BillingYear == 2026
NumberWidth == 4

FCL_TYPES == {"20GP", "40GP", "40HC"}

----------------------------------------------------------------------------
(* Generic helpers *)

None == << >>
Some(v) == << v >>
IsNone(m) == m = << >>

\* Python's  x or d  on an optional number: d when x is None or 0
OrDefault(m, d) == IF m = << >> THEN d ELSE IF m[1] = 0 THEN d ELSE m[1]

Max2(a, b) == IF a >= b THEN a ELSE b

\* round(n / d) to the nearest integer, ties to even (d > 0)
RoundDiv(n, d) ==
    LET q == n \div d
        r == n % d
    IN  IF 2 * r < d THEN q
        ELSE IF 2 * r > d THEN q + 1
        ELSE IF q % 2 = 0 THEN q ELSE q + 1

RECURSIVE SumSeq(_)
SumSeq(s) == IF s = << >> THEN 0 ELSE Head(s) + SumSeq(Tail(s))

\* lexicographic order of two sequences of character codes (memcmp order)
RECURSIVE LexLess(_, _)
LexLess(a, b) ==
    IF b = << >> THEN FALSE
    ELSE IF a = << >> THEN TRUE
    ELSE IF Head(a) < Head(b) THEN TRUE
    ELSE IF Head(a) > Head(b) THEN FALSE
    ELSE LexLess(Tail(a), Tail(b))

----------------------------------------------------------------------------
(* Invoice Numbering.  An invoice number is INV-<year>-<seg>; seg is the   *)
(* trailing segment as a sequence of character codes: 0..9 are the digits, *)
(* any greater code is a character that sorts after the digits.            *)

IsDigits(seg) == seg # << >> /\ \A k \in 1..Len(seg) : seg[k] \in 0..9

RECURSIVE DigitsValue(_)
DigitsValue(seg) ==
    IF seg = << >> THEN 0
    ELSE 10 * DigitsValue(SubSeq(seg, 1, Len(seg) - 1)) + seg[Len(seg)]

\* int(max_invoice_number.split("-")[-1]), with the except branch
ParseSequence(seg) == IF IsDigits(seg) THEN DigitsValue(seg) ELSE 0

RECURSIVE Digits(_)
Digits(n) == IF n < 10 THEN << n >> ELSE Append(Digits(n \div 10), n % 10)

RECURSIVE ZeroPad(_, _)
ZeroPad(d, w) == IF Len(d) >= w THEN d ELSE ZeroPad(<< 0 >> \o d, w)

\* f"{n:04d}"
FormatSequence(n) == ZeroPad(Digits(n), NumberWidth)

\* SELECT max(invoice_number) WHERE invoice_number LIKE 'INV-2026-%'
MaxInvoiceNumber(invs) ==
    LET segs == { invs[k].invoice_number.seg : k \in
                    { j \in 1..Len(invs) : invs[j].invoice_number.year = BillingYear } }
    IN  IF segs = {} THEN None
        ELSE Some(CHOOSE m \in segs : \A o \in segs : o = m \/ LexLess(o, m))

get_next_invoice_number(invs) ==
    LET m == MaxInvoiceNumber(invs)
    IN  IF IsNone(m)
        THEN [year |-> BillingYear, seg |-> FormatSequence(1)]
        ELSE [year |-> BillingYear, seg |-> FormatSequence(ParseSequence(m[1]) + 1)]

----------------------------------------------------------------------------
(* Rate Resolver *)

PortById(ports, id) ==
    LET hit == SelectSeq(ports, LAMBDA p : p.id = id)
    IN  IF hit = << >> THEN None ELSE Some(hit[1])

RegionPortIds(ports, region) ==
    { ports[k].id : k \in { j \in 1..Len(ports) : ports[j].region = region } }

\* variant: order_by(effective_from) without desc()
LatestCard_Oldest(hit) ==
        IF hit = << >> THEN None
        ELSE LET best == CHOOSE k \in 1..Len(hit) :
                            /\ \A j \in 1..Len(hit) :
                                  hit[j].effective_from >= hit[k].effective_from
                            /\ \A j \in 1..(k - 1) :
                                  hit[j].effective_from > hit[k].effective_from
             IN  Some(hit[best])

\* .order_by(effective_from.desc()).first() over the rows passing the filter;
\* among equal dates the row stored first is taken
LatestCard(hit) ==
        IF hit = << >> THEN None
        ELSE LET best == CHOOSE k \in 1..Len(hit) :
                            /\ \A j \in 1..Len(hit) :
                                  hit[j].effective_from <= hit[k].effective_from
                            /\ \A j \in 1..(k - 1) :
                                  hit[j].effective_from < hit[k].effective_from
             IN  Some(hit[best])

find_rate_card(cards, ports, origin_port_id, dest_port_id, container_type) ==
    LET exact_match == LatestCard(SelectSeq(cards, LAMBDA c :
            /\ c.origin_port_id = origin_port_id
            /\ c.destination_port_id = dest_port_id
            /\ c.container_type = container_type
            /\ c.is_active))
        origin_port == PortById(ports, origin_port_id)
        region_port_ids == RegionPortIds(ports, origin_port[1].region)
        region_match == LatestCard(SelectSeq(cards, LAMBDA c :
            /\ c.origin_port_id \in region_port_ids
            /\ c.destination_port_id = dest_port_id
            /\ c.container_type = container_type
            /\ c.is_active))
        dest_port == PortById(ports, dest_port_id)
        dest_region_port_ids == RegionPortIds(ports, dest_port[1].region)
        broad_match == LatestCard(SelectSeq(cards, LAMBDA c :
            /\ c.origin_port_id \in region_port_ids
            /\ c.destination_port_id \in dest_region_port_ids
            /\ c.container_type = container_type
            /\ c.is_active))
    IN  IF ~IsNone(exact_match) THEN exact_match
        ELSE IF IsNone(origin_port) THEN None
        ELSE IF ~IsNone(region_match) THEN region_match
        ELSE IF IsNone(dest_port) THEN None
        ELSE broad_match

----------------------------------------------------------------------------
(* Surcharge Selector *)

Category(container_type) == IF container_type \in FCL_TYPES THEN "FCL" ELSE "LCL"

\* variant: the loop ends at the first surcharge of another class
get_applicable_surcharges_Break(surcharges, origin_port_id, dest_port_id, container_type) ==
    LET other(k) == surcharges[k].applies_to \notin {Category(container_type), "all"}
        stop == IF \E k \in 1..Len(surcharges) : surcharges[k].is_active /\ other(k)
                THEN CHOOSE k \in 1..Len(surcharges) :
                        /\ surcharges[k].is_active /\ other(k)
                        /\ \A j \in 1..(k - 1) : ~(surcharges[j].is_active /\ other(j))
                ELSE Len(surcharges) + 1
    IN  SelectSeq(SubSeq(surcharges, 1, stop - 1), LAMBDA s :
            /\ s.is_active
            /\ ~(s.origin_port_id # None /\ s.origin_port_id # Some(origin_port_id))
            /\ ~(s.destination_port_id # None /\ s.destination_port_id # Some(dest_port_id)))

get_applicable_surcharges(surcharges, origin_port_id, dest_port_id, container_type) ==
    SelectSeq(surcharges, LAMBDA s :
        /\ s.is_active
        /\ s.applies_to \in {Category(container_type), "all"}
        /\ ~(s.origin_port_id # None /\ s.origin_port_id # Some(origin_port_id))
        /\ ~(s.destination_port_id # None /\ s.destination_port_id # Some(dest_port_id)))

----------------------------------------------------------------------------
(* Charge Calculator *)

\* The charge codes in use, in the order Python compares the strings
ChargeCodeOrder ==
    << "AMS_FEE", "BAF", "BL_FEE", "CAF", "CFS_DEST", "CFS_ORIGIN", "DOC_FEE",
       "ENS_FEE", "HANDLING", "ISPS", "LCL_MIN", "OFR", "PSS", "SEAL_FEE",
       "THC_DEST", "THC_ORIGIN" >>

CodeRank(code) == CHOOSE k \in 1..Len(ChargeCodeOrder) : ChargeCodeOrder[k] = code

\* list.sort(key=charge_code): a stable sort
RECURSIVE InsertByCode(_, _)
InsertByCode(sorted, x) ==
    IF sorted = << >> THEN << x >>
    ELSE IF CodeRank(x.charge_code) < CodeRank(Head(sorted).charge_code)
         THEN << x >> \o sorted
         ELSE << Head(sorted) >> \o InsertByCode(Tail(sorted), x)

RECURSIVE SortByCode(_)
SortByCode(s) ==
    IF s = << >> THEN << >>
    ELSE InsertByCode(SortByCode(SubSeq(s, 1, Len(s) - 1)), s[Len(s)])

Line(code, qty, unit, total) ==
    [charge_code |-> code, quantity |-> qty, unit_price |-> unit, line_total |-> total]

\* max(shipment.cbm or 0, 1.0), in tenths
BilledCbm(shipment) == Max2(OrDefault(shipment.cbm, 0), 10)

\* shipment.container_count or 1
BilledCount(shipment) == OrDefault(shipment.container_count, 1)

\* the unrounded ocean_freight_total, in tenths of a cent
OceanFreightTotal(shipment, rate_card) ==
    IF shipment.container_type = "LCL"
    THEN rate_card.base_ocean_freight * BilledCbm(shipment)
    ELSE rate_card.base_ocean_freight * BilledCount(shipment) * 10

OceanFreightLine(shipment, rate_card) ==
    Line("OFR",
         IF shipment.container_type = "LCL"
         THEN BilledCbm(shipment) ELSE BilledCount(shipment) * 10,
         rate_card.base_ocean_freight,
         RoundDiv(OceanFreightTotal(shipment, rate_card), 10))

\* the line one surcharge contributes: a sequence of length 0 or 1
SurchargeLine(shipment, rate_card, s) ==
    LET is_lcl == shipment.container_type = "LCL"
        oft == OceanFreightTotal(shipment, rate_card)
    IN  IF s.calculation_type = "per_container" /\ ~is_lcl
        THEN << Line(s.charge_code, BilledCount(shipment) * 10, s.amount,
                     s.amount * BilledCount(shipment)) >>
        ELSE IF s.calculation_type = "per_cbm" /\ is_lcl
        THEN << Line(s.charge_code, BilledCbm(shipment), s.amount,
                     RoundDiv(s.amount * BilledCbm(shipment), 10)) >>
        ELSE IF s.calculation_type = "fixed"
        THEN IF s.charge_code = "LCL_MIN" /\ is_lcl /\ oft >= LCL_MIN_THRESHOLD * 1000
             THEN << >>
             ELSE << Line(s.charge_code, 10, s.amount, s.amount) >>
        ELSE IF s.calculation_type = "percentage"
        THEN << Line(s.charge_code, 10,
                     RoundDiv(s.amount * oft, 100000),
                     RoundDiv(s.amount * oft, 100000)) >>
        ELSE << >>

RECURSIVE SurchargeLines(_, _, _)
SurchargeLines(shipment, rate_card, surcharges) ==
    IF surcharges = << >> THEN << >>
    ELSE SurchargeLine(shipment, rate_card, Head(surcharges))
         \o SurchargeLines(shipment, rate_card, Tail(surcharges))

calculate_line_items(shipment, rate_card, surcharges) ==
    << OceanFreightLine(shipment, rate_card) >>
    \o SortByCode(SurchargeLines(shipment, rate_card, surcharges))

----------------------------------------------------------------------------
(* Reference data: ports, rate cards, surcharges, clients and shipments.    *)
(* No handler of the engine writes them.                                   *)
(* The rows of a table are in the order an unordered SELECT returns them,   *)
(* which need not be the order of the ids.                                 *)

Catalog ==
    [ ports |-> <<
        [id |-> 1, region |-> "Asia"],
        [id |-> 2, region |-> "Asia"],
        [id |-> 3, region |-> "Americas"] >>,
      rate_cards |-> <<
        [id |-> 1, origin_port_id |-> 1, destination_port_id |-> 3,
         container_type |-> "40HC", base_ocean_freight |-> 180000,
         effective_from |-> 1, is_active |-> TRUE],
        [id |-> 2, origin_port_id |-> 2, destination_port_id |-> 3,
         container_type |-> "LCL", base_ocean_freight |-> 8000,
         effective_from |-> 1, is_active |-> TRUE] >>,
      surcharges |-> <<
        [charge_code |-> "DOC_FEE", calculation_type |-> "fixed", amount |-> 7500,
         applies_to |-> "all", origin_port_id |-> None,
         destination_port_id |-> None, is_active |-> TRUE],
        [charge_code |-> "BAF", calculation_type |-> "per_container", amount |-> 35000,
         applies_to |-> "FCL", origin_port_id |-> None,
         destination_port_id |-> None, is_active |-> TRUE],
        [charge_code |-> "CAF", calculation_type |-> "percentage", amount |-> 300,
         applies_to |-> "all", origin_port_id |-> None,
         destination_port_id |-> None, is_active |-> TRUE],
        [charge_code |-> "LCL_MIN", calculation_type |-> "fixed", amount |-> 12000,
         applies_to |-> "LCL", origin_port_id |-> None,
         destination_port_id |-> None, is_active |-> TRUE],
        [charge_code |-> "CFS_ORIGIN", calculation_type |-> "per_cbm", amount |-> 1500,
         applies_to |-> "LCL", origin_port_id |-> None,
         destination_port_id |-> None, is_active |-> TRUE],
        [charge_code |-> "AMS_FEE", calculation_type |-> "fixed", amount |-> 3500,
         applies_to |-> "all", origin_port_id |-> None,
         destination_port_id |-> Some(3), is_active |-> TRUE],
        [charge_code |-> "PSS", calculation_type |-> "per_container", amount |-> 20000,
         applies_to |-> "FCL", origin_port_id |-> None,
         destination_port_id |-> None, is_active |-> FALSE] >>,
      clients |-> <<
        [id |-> 1, payment_terms_days |-> Some(1)],
        [id |-> 2, payment_terms_days |-> None] >>,
      shipments |-> <<
        [id |-> 2, shipper_id |-> 2, consignee_id |-> 1, origin_port_id |-> 1,
         destination_port_id |-> 3, container_type |-> "LCL",
         container_count |-> Some(1), cbm |-> Some(5), bill_to |-> "consignee"],
        [id |-> 3, shipper_id |-> 1, consignee_id |-> 2, origin_port_id |-> 3,
         destination_port_id |-> 1, container_type |-> "20GP",
         container_count |-> Some(1), cbm |-> None, bill_to |-> "shipper"],
        [id |-> 1, shipper_id |-> 1, consignee_id |-> 2, origin_port_id |-> 1,
         destination_port_id |-> 3, container_type |-> "40HC",
         container_count |-> Some(2), cbm |-> None, bill_to |-> "shipper"],
        [id |-> 4, shipper_id |-> 1, consignee_id |-> 9, origin_port_id |-> 1,
         destination_port_id |-> 3, container_type |-> "40HC",
         container_count |-> Some(1), cbm |-> None, bill_to |-> "consignee"] >> ]

\* the shipment ids a Generate request may carry: the stored ones and one more
ShipmentArgs == 1..(Len(Catalog.shipments) + 1)

\* the invoice ids a request may carry: the stored ones and one more
InvoiceArgs(invs) == 1..(Len(invs) + 1)

\* the payment amounts a request may carry, in cents: nothing, a part of
\* either invoice, and the whole of the larger one (more than the smaller)
PayAmounts == {0, 10000, 451800}

Statuses == {"draft", "sent", "partial", "paid", "overdue", "void"}

----------------------------------------------------------------------------
(* Invoice Lifecycle Manager: the handlers as functions of what they read *)

RowById(table, id) ==
    LET hit == SelectSeq(table, LAMBDA r : r.id = id)
    IN  IF hit = << >> THEN None ELSE Some(hit[1])

\* variant: the lookup passes over void invoices
ExistingInvoice_SkipVoid(invs, shipment_id) ==
    LET hit == SelectSeq(invs, LAMBDA i : i.shipment_id = shipment_id /\ i.status # "void")
    IN  IF hit = << >> THEN None ELSE Some(hit[1])

\* db.query(Invoice).filter(Invoice.shipment_id == shipment_id).first()
ExistingInvoice(invs, shipment_id) ==
    LET hit == SelectSeq(invs, LAMBDA i : i.shipment_id = shipment_id)
    IN  IF hit = << >> THEN None ELSE Some(hit[1])

\* the unique index on invoices.invoice_number, checked by the INSERT
\* variant: invoice_number without its unique index
UniqueNumber_NoIndex(invs, number) == TRUE

UniqueNumber(invs, number) ==
    \A k \in 1..Len(invs) : invs[k].invoice_number # number

BillToClient(rf, shipment) ==
    IF shipment.bill_to = "consignee"
    THEN RowById(rf.clients, shipment.consignee_id)
    ELSE RowById(rf.clients, shipment.shipper_id)

\* steps 2 to 5 of generate_invoice: they read reference data only
GeneratePlan(rf, shipment) ==
    LET client == BillToClient(rf, shipment)
        rate_card == find_rate_card(rf.rate_cards, rf.ports, shipment.origin_port_id,
                         shipment.destination_port_id, shipment.container_type)
        surcharges == get_applicable_surcharges(rf.surcharges, shipment.origin_port_id,
                         shipment.destination_port_id, shipment.container_type)
    IN  IF IsNone(client) THEN [error |-> "client_not_found"]
        ELSE IF IsNone(rate_card) THEN [error |-> "no_rate_card"]
        ELSE [error |-> "", client |-> client[1],
              line_items |-> calculate_line_items(shipment, rate_card[1], surcharges)]

\* step 6: the Invoice row
NewInvoice(number, shipment_id, client, line_items, day) ==
    LET subtotal == SumSeq([k \in 1..Len(line_items) |-> line_items[k].line_total])
        tax_amount == 0
        total_amount == subtotal + tax_amount
        payment_terms == OrDefault(client.payment_terms_days, DefaultPaymentTerms)
    IN  [invoice_number |-> number, shipment_id |-> shipment_id,
         client_id |-> client.id, issue_date |-> day, due_date |-> day + payment_terms,
         subtotal |-> subtotal, tax_amount |-> tax_amount,
         total_amount |-> total_amount, amount_paid |-> 0,
         balance_due |-> total_amount, status |-> "draft"]

\* variant: enumerate(line_items) without start=1
NewLines_FromZero(invoice_id, line_items) ==
    [k \in 1..Len(line_items) |->
        [invoice_id |-> invoice_id, line_order |-> k - 1,
         charge_code |-> line_items[k].charge_code,
         quantity |-> line_items[k].quantity,
         unit_price |-> line_items[k].unit_price,
         line_total |-> line_items[k].line_total]]

\* step 7: the InvoiceLine rows
NewLines(invoice_id, line_items) ==
    [k \in 1..Len(line_items) |->
        [invoice_id |-> invoice_id, line_order |-> k,
         charge_code |-> line_items[k].charge_code,
         quantity |-> line_items[k].quantity,
         unit_price |-> line_items[k].unit_price,
         line_total |-> line_items[k].line_total]]

\* variant: the Invoice row is added and committed before the rate card is
\* looked up
generate_invoice_HeaderFirst(rf, invs, lns, day, shipment_id) ==
    LET shipment == RowById(rf.shipments, shipment_id)
        existing == ExistingInvoice(invs, shipment_id)
        plan == GeneratePlan(rf, shipment[1])
        number == get_next_invoice_number(invs)
        same == [outcome |-> "", invoices |-> invs, lines |-> lns]
    IN  IF IsNone(shipment) THEN [same EXCEPT !.outcome = "shipment_not_found"]
        ELSE IF ~IsNone(existing) THEN [same EXCEPT !.outcome = "already_invoiced"]
        ELSE IF plan.error = "client_not_found" THEN [same EXCEPT !.outcome = plan.error]
        ELSE IF plan.error = "no_rate_card"
             THEN [outcome |-> plan.error,
                   invoices |-> Append(invs, NewInvoice(number, shipment_id,
                                   BillToClient(rf, shipment[1])[1], << >>, day)),
                   lines |-> lns]
        ELSE [outcome |-> "ok",
              invoices |-> Append(invs,
                  NewInvoice(number, shipment_id, plan.client, plan.line_items, day)),
              lines |-> lns \o NewLines(Len(invs) + 1, plan.line_items)]

\* generate_invoice run alone: the outcome and the tables it leaves
generate_invoice(rf, invs, lns, day, shipment_id) ==
    LET shipment == RowById(rf.shipments, shipment_id)
        existing == ExistingInvoice(invs, shipment_id)
        plan == GeneratePlan(rf, shipment[1])
        number == get_next_invoice_number(invs)
        same == [outcome |-> "", invoices |-> invs, lines |-> lns]
    IN  IF IsNone(shipment) THEN [same EXCEPT !.outcome = "shipment_not_found"]
        ELSE IF ~IsNone(existing) THEN [same EXCEPT !.outcome = "already_invoiced"]
        ELSE IF plan.error # "" THEN [same EXCEPT !.outcome = plan.error]
        ELSE IF ~UniqueNumber(invs, number)
             THEN [same EXCEPT !.outcome = "integrity_error"]
        ELSE [outcome |-> "ok",
              invoices |-> Append(invs,
                  NewInvoice(number, shipment_id, plan.client, plan.line_items, day)),
              lines |-> lns \o NewLines(Len(invs) + 1, plan.line_items)]

\* the loop of generate_batch over the unbilled shipments.  A ValueError is
\* caught and listed.  A failed flush leaves the shared session in need of a
\* rollback: the next use of it (shipment.id in the except branch, at the
\* latest the final commit) raises outside the try, and the request ends in
\* an unhandled exception instead of a response.
RECURSIVE BatchLoop(_, _, _, _)
BatchLoop(rf, acc, day, unbilled) ==
    IF unbilled = << >> THEN acc
    ELSE LET r == generate_invoice(rf, acc.invoices, acc.lines, day, Head(unbilled).id)
         IN  IF r.outcome = "ok"
             THEN BatchLoop(rf, [acc EXCEPT !.invoices = r.invoices,
                                   !.lines = r.lines,
                                   !.generated = Append(@, Head(unbilled).id)],
                            day, Tail(unbilled))
             ELSE IF r.outcome = "integrity_error"
             THEN [acc EXCEPT !.aborted = TRUE]
             ELSE BatchLoop(rf, [acc EXCEPT !.errors = Append(@, Head(unbilled).id)],
                            day, Tail(unbilled))

\* the tables generate_batch leaves, the shipment ids of its two response
\* lists, and whether it ended without a response
generate_batch(rf, invs, lns, day) ==
    LET invoiced_shipment_ids ==
            { invs[k].shipment_id : k \in 1..Len(invs) } \ {0}
        unbilled == SelectSeq(rf.shipments, LAMBDA s : s.id \notin invoiced_shipment_ids)
    IN  BatchLoop(rf, [invoices |-> invs, lines |-> lns, generated |-> << >>,
                       errors |-> << >>, aborted |-> FALSE],
                  day, unbilled)

\* variant: the balance is stored as computed, without the floor at 0
create_payment_NoFloor(invoice, amount) ==
    LET amount_paid == invoice.amount_paid + amount
        balance_due == invoice.total_amount - amount_paid
    IN  [invoice EXCEPT !.amount_paid = amount_paid, !.balance_due = balance_due,
                        !.status = IF balance_due <= 0 THEN "paid" ELSE "partial"]

\* the invoice as create_payment leaves it
create_payment(invoice, amount) ==
    LET amount_paid == invoice.amount_paid + amount
        balance_due == invoice.total_amount - amount_paid
    IN  IF balance_due <= 0
        THEN [invoice EXCEPT !.amount_paid = amount_paid, !.balance_due = 0,
                             !.status = "paid"]
        ELSE [invoice EXCEPT !.amount_paid = amount_paid, !.balance_due = balance_due,
                             !.status = "partial"]

\* the invoice as record_payment leaves it
record_payment(invoice, amount) ==
    LET amount_paid == invoice.amount_paid + amount
        balance_due == invoice.total_amount - amount_paid
    IN  IF balance_due <= 0
        THEN [invoice EXCEPT !.amount_paid = amount_paid, !.balance_due = 0,
                             !.status = "paid"]
        ELSE IF amount_paid > 0
        THEN [invoice EXCEPT !.amount_paid = amount_paid, !.balance_due = balance_due,
                             !.status = "partial"]
        ELSE [invoice EXCEPT !.amount_paid = amount_paid, !.balance_due = balance_due]

\* variant: an invoice due today is selected as well
OverdueIds_DueToday(invs, day) ==
    { k \in 1..Len(invs) : invs[k].status = "sent" /\ invs[k].due_date <= day }

\* the ids check_overdue selects
OverdueIds(invs, day) ==
    { k \in 1..Len(invs) : invs[k].status = "sent" /\ invs[k].due_date < day }

----------------------------------------------------------------------------
(* The store and the request handlers *)

Workers == 1..NumWorkers

\* a handler's session: its request, what it has read, and what it returned
NoLoad ==
    [op |-> "", arg |-> 0, amount |-> 0, outcome |-> "", count |-> 0,
     number |-> None, loaded |-> None, ids |-> {}]

Request(op, arg, amount) == [NoLoad EXCEPT !.op = op, !.arg = arg, !.amount = amount]

Finished(l, outcome, count) ==
    [NoLoad EXCEPT !.op = l.op, !.arg = l.arg, !.amount = l.amount,
                   !.number = l.number, !.outcome = outcome, !.count = count]

Result(op, outcome, count) == [outcome |-> outcome, count |-> count]

Init ==
    /\ invoices = << >>
    /\ lines = << >>
    /\ payments = << >>
    /\ today = 0
    /\ last = Result("init", "ok", 0)
    /\ pc = [w \in Workers |-> "idle"]
    /\ loc = [w \in Workers |-> NoLoad]
    /\ wlock = 0

Quiet == \A w \in Workers : pc[w] = "idle"

NewPayment(invoice_id, amount) == [invoice_id |-> invoice_id, amount |-> amount]

----------------------------------------------------------------------------
(* Each handler run alone, from its first query to its commit *)

\* POST /api/invoices/generate/{shipment_id}
Generate(s) ==
    /\ Quiet
    /\ LET r == generate_invoice(Catalog, invoices, lines, today, s)
       IN  /\ invoices' = r.invoices
           /\ lines' = r.lines
           /\ last' = Result("generate", r.outcome, 0)
    /\ UNCHANGED <<payments, today, pc, loc, wlock>>

\* POST /api/agent/generate-batch
GenerateBatch ==
    /\ Quiet
    /\ LET r == generate_batch(Catalog, invoices, lines, today)
       IN  /\ invoices' = r.invoices
           /\ lines' = r.lines
           /\ last' = Result("generate_batch",
                              IF r.aborted THEN "error" ELSE "ok", Len(r.generated))
    /\ UNCHANGED <<payments, today, pc, loc, wlock>>

\* POST /api/payments
CreatePayment(i, a) ==
    /\ Quiet
    /\ IF i \in 1..Len(invoices)
       THEN /\ Len(payments) < MaxPayments
            /\ payments' = Append(payments, NewPayment(i, a))
            /\ invoices' = [invoices EXCEPT ![i] = create_payment(@, a)]
            /\ last' = Result("create_payment", "ok", 0)
       ELSE /\ last' = Result("create_payment", "not_found", 0)
            /\ UNCHANGED <<invoices, payments>>
    /\ UNCHANGED <<lines, today, pc, loc, wlock>>

\* payment_tracker.record_payment
RecordPayment(i, a) ==
    /\ Quiet
    /\ IF i \in 1..Len(invoices)
       THEN /\ Len(payments) < MaxPayments
            /\ payments' = Append(payments, NewPayment(i, a))
            /\ invoices' = [invoices EXCEPT ![i] = record_payment(@, a)]
            /\ last' = Result("record_payment", "ok", 0)
       ELSE /\ last' = Result("record_payment", "not_found", 0)
            /\ UNCHANGED <<invoices, payments>>
    /\ UNCHANGED <<lines, today, pc, loc, wlock>>

\* payment_tracker.check_overdue
CheckOverdue ==
    /\ Quiet
    /\ LET ids == OverdueIds(invoices, today)
       IN  /\ invoices' = [k \in 1..Len(invoices) |->
                             IF k \in ids
                             THEN [invoices[k] EXCEPT !.status = "overdue"]
                             ELSE invoices[k]]
           /\ last' = Result("check_overdue", "ok", Cardinality(ids))
    /\ UNCHANGED <<lines, payments, today, pc, loc, wlock>>

\* variant: void also writes the balance off
VoidInvoice_WriteOff(i) ==
    /\ Quiet
    /\ IF i \in 1..Len(invoices)
       THEN /\ invoices' = [invoices EXCEPT ![i].status = "void", ![i].balance_due = 0]
            /\ last' = Result("void_invoice", "ok", 0)
       ELSE /\ last' = Result("void_invoice", "not_found", 0)
            /\ UNCHANGED invoices
    /\ UNCHANGED <<lines, payments, today, pc, loc, wlock>>

\* POST /api/invoices/{invoice_id}/void
VoidInvoice(i) ==
    /\ Quiet
    /\ IF i \in 1..Len(invoices)
       THEN /\ invoices' = [invoices EXCEPT ![i].status = "void"]
            /\ last' = Result("void_invoice", "ok", 0)
       ELSE /\ last' = Result("void_invoice", "not_found", 0)
            /\ UNCHANGED invoices
    /\ UNCHANGED <<lines, payments, today, pc, loc, wlock>>

\* email_service.send_invoice (the sent_at timestamp, written here and read by
\* no handler, is not a column of the model)
SendInvoice(i) ==
    /\ Quiet
    /\ IF i \notin 1..Len(invoices)
       THEN /\ last' = Result("send_invoice", "not_found", 0)
            /\ UNCHANGED invoices
       ELSE IF IsNone(RowById(Catalog.clients, invoices[i].client_id))
       THEN /\ last' = Result("send_invoice", "client_not_found", 0)
            /\ UNCHANGED invoices
       ELSE IF IsNone(RowById(Catalog.shipments, invoices[i].shipment_id))
       THEN /\ last' = Result("send_invoice", "shipment_not_found", 0)
            /\ UNCHANGED invoices
       ELSE /\ invoices' = [invoices EXCEPT ![i].status = "sent"]
            /\ last' = Result("send_invoice", "ok", 0)
    /\ UNCHANGED <<lines, payments, today, pc, loc, wlock>>

\* the date changes between two requests (days that pass before the first
\* invoice exists only shift every date)
Tick ==
    /\ Quiet
    /\ invoices # << >>
    /\ today < MaxDay
    /\ today' = today + 1
    /\ UNCHANGED <<invoices, lines, payments, last, pc, loc, wlock>>

Next ==
    \/ \E s \in ShipmentArgs : Generate(s)
    \/ GenerateBatch
    \/ \E i \in InvoiceArgs(invoices), a \in PayAmounts : CreatePayment(i, a)
    \/ \E i \in InvoiceArgs(invoices), a \in PayAmounts : RecordPayment(i, a)
    \/ CheckOverdue
    \/ \E i \in InvoiceArgs(invoices) : VoidInvoice(i)
    \/ \E i \in InvoiceArgs(invoices) : SendInvoice(i)
    \/ Tick

Spec == Init /\ [][Next]_vars

----------------------------------------------------------------------------
(* The handlers run concurrently, each in its own session.  A SELECT reads *)
(* the committed tables; the rows of a flush are seen by others only after *)
(* the commit; the store admits one write transaction at a time.           *)

\* generate_invoice, lines 256-311: the shipment, the existing invoice, the
\* bill-to client, the rate card, the surcharges and the line items
GenStart(w, s) ==
    /\ pc[w] = "idle"
    /\ LET shipment == RowById(Catalog.shipments, s)
           existing == ExistingInvoice(invoices, s)
           plan == GeneratePlan(Catalog, shipment[1])
           fail(outcome) ==
               /\ pc' = [pc EXCEPT ![w] = "done"]
               /\ loc' = [loc EXCEPT ![w] = Finished(Request("generate", s, 0), outcome, 0)]
       IN  IF IsNone(shipment) THEN fail("shipment_not_found")
           ELSE IF ~IsNone(existing) THEN fail("already_invoiced")
           ELSE IF plan.error # "" THEN fail(plan.error)
           ELSE /\ pc' = [pc EXCEPT ![w] = "gen_number"]
                /\ loc' = [loc EXCEPT ![w] = Request("generate", s, 0)]
    /\ UNCHANGED <<invoices, lines, payments, today, last, wlock>>

\* line 314: get_next_invoice_number reads the greatest committed number
GenNumber(w) ==
    /\ pc[w] = "gen_number"
    /\ pc' = [pc EXCEPT ![w] = "gen_flush"]
    /\ loc' = [loc EXCEPT ![w].number = Some(get_next_invoice_number(invoices))]
    /\ UNCHANGED <<invoices, lines, payments, today, last, wlock>>

\* variant: the INSERT without a unique index on invoice_number
FlushInsert_NoUniqueIndex(w) ==
    /\ wlock' = w
    /\ pc' = [pc EXCEPT ![w] = "gen_commit"]
    /\ UNCHANGED loc

\* the INSERT of db.flush(): it opens the write transaction and checks the
\* unique index; on a duplicate number the request ends in an IntegrityError
FlushInsert(w) ==
    IF UniqueNumber(invoices, loc[w].number[1])
    THEN /\ wlock' = w
         /\ pc' = [pc EXCEPT ![w] = "gen_commit"]
         /\ UNCHANGED loc
    ELSE /\ pc' = [pc EXCEPT ![w] = "done"]
         /\ loc' = [loc EXCEPT ![w] = Finished(@, "integrity_error", 0)]
         /\ UNCHANGED wlock

\* lines 326-327
GenFlush(w) ==
    /\ pc[w] = "gen_flush"
    /\ wlock = 0
    /\ FlushInsert(w)
    /\ UNCHANGED <<invoices, lines, payments, today, last>>

\* lines 330-345: the lines are inserted and the transaction commits
GenCommit(w) ==
    /\ pc[w] = "gen_commit"
    /\ wlock = w
    /\ LET shipment == RowById(Catalog.shipments, loc[w].arg)[1]
           plan == GeneratePlan(Catalog, shipment)
       IN  /\ invoices' = Append(invoices,
                  NewInvoice(loc[w].number[1], loc[w].arg, plan.client,
                             plan.line_items, today))
           /\ lines' = lines \o NewLines(Len(invoices) + 1, plan.line_items)
    /\ wlock' = 0
    /\ pc' = [pc EXCEPT ![w] = "done"]
    /\ loc' = [loc EXCEPT ![w] = Finished(@, "ok", 0)]
    /\ UNCHANGED <<payments, today, last>>

GenNext ==
    \E w \in Workers :
        \/ \E s \in ShipmentArgs : GenStart(w, s)
        \/ GenNumber(w)
        \/ GenFlush(w)
        \/ GenCommit(w)

GenSpec == Init /\ [][GenNext]_vars

\* a request that ends between db.flush() and db.commit(): get_db closes the
\* session, the open transaction is rolled back and the flushed row is gone
GenAbort_KeepsInvoice(w) ==
    /\ pc[w] = "gen_commit"
    /\ wlock = w
    /\ LET shipment == RowById(Catalog.shipments, loc[w].arg)[1]
           plan == GeneratePlan(Catalog, shipment)
       IN  invoices' = Append(invoices,
               NewInvoice(loc[w].number[1], loc[w].arg, plan.client,
                          plan.line_items, today))
    /\ wlock' = 0
    /\ pc' = [pc EXCEPT ![w] = "done"]
    /\ loc' = [loc EXCEPT ![w] = Finished(@, "aborted", 0)]
    /\ UNCHANGED <<lines, payments, today, last>>

GenAbort(w) ==
    /\ pc[w] = "gen_commit"
    /\ wlock = w
    /\ wlock' = 0
    /\ pc' = [pc EXCEPT ![w] = "done"]
    /\ loc' = [loc EXCEPT ![w] = Finished(@, "aborted", 0)]
    /\ UNCHANGED <<invoices, lines, payments, today, last>>

AtomicNext ==
    \E w \in Workers :
        \/ \E s \in ShipmentArgs : GenStart(w, s)
        \/ GenNumber(w)
        \/ GenFlush(w)
        \/ GenCommit(w)
        \/ GenAbort(w)

AtomicSpec == Init /\ [][AtomicNext]_vars

----------------------------------------------------------------------------
(* Payments and the overdue sweep run concurrently *)

\* the UPDATE a commit sends for a loaded row: the columns whose value the
\* handler changed, over the row as it is stored now
WriteBack(current, loaded, changed) ==
    [f \in DOMAIN current |-> IF changed[f] # loaded[f] THEN changed[f] ELSE current[f]]

\* create_payment lines 27-30, record_payment lines 25-27: the invoice is read
PayStart(w, kind, i, a) ==
    /\ pc[w] = "idle"
    /\ IF i \in 1..Len(invoices)
       THEN /\ pc' = [pc EXCEPT ![w] = "pay_commit"]
            /\ loc' = [loc EXCEPT ![w] =
                         [Request(kind, i, a) EXCEPT !.loaded = Some(invoices[i])]]
       ELSE /\ pc' = [pc EXCEPT ![w] = "done"]
            /\ loc' = [loc EXCEPT ![w] = Finished(Request(kind, i, a), "not_found", 0)]
    /\ UNCHANGED <<invoices, lines, payments, today, last, wlock>>

\* create_payment lines 32-47, record_payment lines 29-51: the payment is
\* added, the loaded invoice is changed, and both are written at the commit
PayCommit(w) ==
    /\ pc[w] = "pay_commit"
    /\ wlock = 0
    /\ LET l == loc[w]
           changed == IF l.op = "create_payment"
                      THEN create_payment(l.loaded[1], l.amount)
                      ELSE record_payment(l.loaded[1], l.amount)
       IN  /\ payments' = Append(payments, NewPayment(l.arg, l.amount))
           /\ invoices' = [invoices EXCEPT ![l.arg] = WriteBack(@, l.loaded[1], changed)]
           /\ loc' = [loc EXCEPT ![w] = Finished(l, "ok", 0)]
    /\ pc' = [pc EXCEPT ![w] = "done"]
    /\ UNCHANGED <<lines, today, wlock, last>>

\* check_overdue lines 61-80: the query; without a hit nothing is committed
SweepStart(w) ==
    /\ pc[w] = "idle"
    /\ LET ids == OverdueIds(invoices, today)
       IN  IF ids = {}
           THEN /\ pc' = [pc EXCEPT ![w] = "done"]
                /\ loc' = [loc EXCEPT ![w] = Finished(Request("check_overdue", 0, 0), "ok", 0)]
           ELSE /\ pc' = [pc EXCEPT ![w] = "sweep_commit"]
                /\ loc' = [loc EXCEPT ![w] =
                             [Request("check_overdue", 0, 0) EXCEPT !.ids = ids]]
    /\ UNCHANGED <<invoices, lines, payments, today, last, wlock>>

\* check_overdue lines 72-80: the status of every row of the hit is written
SweepCommit(w) ==
    /\ pc[w] = "sweep_commit"
    /\ wlock = 0
    /\ invoices' = [k \in 1..Len(invoices) |->
                      IF k \in loc[w].ids
                      THEN [invoices[k] EXCEPT !.status = "overdue"]
                      ELSE invoices[k]]
    /\ pc' = [pc EXCEPT ![w] = "done"]
    /\ loc' = [loc EXCEPT ![w] = Finished(@, "ok", Cardinality(loc[w].ids))]
    /\ UNCHANGED <<lines, payments, today, last, wlock>>

\* the store once shipment 1 has been invoiced on day 0 and the invoice sent
SentStore ==
    LET g == generate_invoice(Catalog, << >>, << >>, 0, 1)
    IN  [invoices |-> [g.invoices EXCEPT ![1].status = "sent"], lines |-> g.lines]

PayInit ==
    /\ invoices = SentStore.invoices
    /\ lines = SentStore.lines
    /\ payments = << >>
    /\ today = MaxDay
    /\ last = Result("send_invoice", "ok", 0)
    /\ pc = [w \in Workers |-> "idle"]
    /\ loc = [w \in Workers |-> NoLoad]
    /\ wlock = 0

PayNext ==
    \E w \in Workers :
        \/ \E i \in InvoiceArgs(invoices), a \in PayAmounts :
              \/ PayStart(w, "create_payment", i, a)
              \/ PayStart(w, "record_payment", i, a)
        \/ PayCommit(w)
        \/ SweepStart(w)
        \/ SweepCommit(w)

PaySpec == PayInit /\ [][PayNext]_vars

----------------------------------------------------------------------------
(* The handlers run alone on the store of a year in which the numbers of   *)
(* the format's width have been used up.  Of the invoices of that year the *)
(* store of the model keeps the two that carry the last number of the      *)
(* width and the one after it: the first belongs to a shipment that is not *)
(* in the catalog, the second to shipment 1.  The other rows of the year   *)
(* carry smaller numbers and belong to shipments not in the catalog.       *)

RECURSIVE Pow10(_)
Pow10(n) == IF n = 0 THEN 1 ELSE 10 * Pow10(n - 1)

\* the greatest sequence the width of the format holds
LastOfWidth == Pow10(NumberWidth) - 1

InvoiceNumber(n) == [year |-> BillingYear, seg |-> FormatSequence(n)]

FullYearStore ==
    LET shipment == RowById(Catalog.shipments, 1)[1]
        plan == GeneratePlan(Catalog, shipment)
        earlier_shipment_id == Len(Catalog.shipments) + 1
    IN  [invoices |->
             << NewInvoice(InvoiceNumber(LastOfWidth), earlier_shipment_id,
                           plan.client, plan.line_items, 0),
                NewInvoice(InvoiceNumber(LastOfWidth + 1), 1,
                           plan.client, plan.line_items, 0) >>,
         lines |-> NewLines(1, plan.line_items) \o NewLines(2, plan.line_items)]

FullYearInit ==
    /\ invoices = FullYearStore.invoices
    /\ lines = FullYearStore.lines
    /\ payments = << >>
    /\ today = 0
    /\ last = Result("init", "ok", 0)
    /\ pc = [w \in Workers |-> "idle"]
    /\ loc = [w \in Workers |-> NoLoad]
    /\ wlock = 0

FullYearSpec == FullYearInit /\ [][Next]_vars

----------------------------------------------------------------------------
(* A store with corrupt data: one invoice of the year whose number ends in a
   segment that int() rejects ("00A1"), billed to a shipment that is no
   longer in the catalog.  As text the number is greater than every
   well-formed number of 4 digits that starts with 00. *)

CorruptSegment == << 0, 0, 10, 1 >>

CorruptStore ==
    LET shipment == RowById(Catalog.shipments, 1)[1]
        plan == GeneratePlan(Catalog, shipment)
        earlier_shipment_id == Len(Catalog.shipments) + 1
    IN  [invoices |->
             << NewInvoice([year |-> BillingYear, seg |-> CorruptSegment],
                           earlier_shipment_id, plan.client, plan.line_items, 0) >>,
         lines |-> NewLines(1, plan.line_items)]

CorruptInit ==
    /\ invoices = CorruptStore.invoices
    /\ lines = CorruptStore.lines
    /\ payments = << >>
    /\ today = 0
    /\ last = Result("init", "ok", 0)
    /\ pc = [w \in Workers |-> "idle"]
    /\ loc = [w \in Workers |-> NoLoad]
    /\ wlock = 0

CorruptSpec == CorruptInit /\ [][Next]_vars

----------------------------------------------------------------------------
(* The ledger of one invoice: the sequential handlers on the invoice of
   shipment 1, with the payment amounts an unconstrained float admits
   (schemas/payment.py declares amount: float), a negative one included. *)

LedgerAmounts == {-451800, 10000, 451800}

LedgerNext ==
    \/ Generate(1)
    \/ \E a \in LedgerAmounts : CreatePayment(1, a)
    \/ \E a \in LedgerAmounts : RecordPayment(1, a)
    \/ CheckOverdue
    \/ VoidInvoice(1)
    \/ SendInvoice(1)
    \/ Tick

LedgerSpec == Init /\ [][LedgerNext]_vars

----------------------------------------------------------------------------
(* Generate under every setting of the two columns that decide who is      *)
(* billed and when the invoice is due: clients.payment_terms_days (set by  *)
(* POST and PUT /api/clients) and shipments.bill_to.                       *)

\* the values of payment_terms_days: NULL, 0 and a positive number
TermsValues == {None, Some(0), Some(1)}

\* the values of bill_to: the two the column documents and another string
BillToValues == {"shipper", "consignee", "agent"}

CatalogWith(terms, bill_to) ==
    [Catalog EXCEPT
        !.clients = [k \in 1..Len(@) |-> [@[k] EXCEPT !.payment_terms_days = terms]],
        !.shipments = [k \in 1..Len(@) |-> [@[k] EXCEPT !.bill_to = bill_to]]]

\* POST /api/invoices/generate/{shipment_id} with the columns set so
GenerateBilled(s, terms, bill_to) ==
    /\ Quiet
    /\ LET r == generate_invoice(CatalogWith(terms, bill_to), invoices, lines, today, s)
       IN  /\ invoices' = r.invoices
           /\ lines' = r.lines
           /\ last' = Result("generate", r.outcome, 0)
    /\ UNCHANGED <<payments, today, pc, loc, wlock>>

TermsNext ==
    \/ \E s \in ShipmentArgs, terms \in TermsValues, bill_to \in BillToValues :
          GenerateBilled(s, terms, bill_to)
    \/ Tick

TermsSpec == Init /\ [][TermsNext]_vars

----------------------------------------------------------------------------
(* The pure functions of the engine, each applied once to an input drawn   *)
(* from a bounded set: the session of handler 1 holds the input before the *)
(* call and the value returned after it.                                   *)

\* the state before the call of op with input x
CallInit(op, x) ==
    /\ invoices = << >>
    /\ lines = << >>
    /\ payments = << >>
    /\ today = 0
    /\ last = Result("init", "ok", 0)
    /\ pc = [w \in Workers |-> "idle"]
    /\ loc = [w \in Workers |->
                IF w = 1 THEN [NoLoad EXCEPT !.op = op, !.arg = x] ELSE NoLoad]
    /\ wlock = 0

\* the call of op returns v
Return(op, v) ==
    /\ pc[1] = "idle"
    /\ loc[1].op = op
    /\ pc' = [pc EXCEPT ![1] = "done"]
    /\ loc' = [loc EXCEPT ![1].loaded = v, ![1].outcome = "ok"]
    /\ UNCHANGED <<invoices, lines, payments, today, last, wlock>>

Returned(op) == pc[1] = "done" /\ loc[1].op = op

\* all tables of at most n rows drawn from a set of rows
TablesOf(rows, n) == UNION { [1..k -> rows] : k \in 0..n }

----------------------------------------------------------------------------
(* Rate Resolver on every table of at most MaxCards rate cards *)

MaxCards == 2

ResolverPorts ==
    << [id |-> 1, region |-> "Asia"], [id |-> 2, region |-> "Asia"],
       [id |-> 3, region |-> "Americas"], [id |-> 4, region |-> "Americas"] >>

CardRows ==
    [origin_port_id : {1, 2}, destination_port_id : {3, 4},
     container_type : {"40HC", "LCL"}, effective_from : {1, 2}, is_active : BOOLEAN]

\* the rows with their ids; the base amount tells the cards apart
WithCardIds(t) ==
    [k \in 1..Len(t) |->
        [id |-> k, origin_port_id |-> t[k].origin_port_id,
         destination_port_id |-> t[k].destination_port_id,
         container_type |-> t[k].container_type,
         base_ocean_freight |-> 100000 * k,
         effective_from |-> t[k].effective_from, is_active |-> t[k].is_active]]

ResolverInputs ==
    { [cards |-> WithCardIds(t), ports |-> ResolverPorts, origin_port_id |-> o,
       dest_port_id |-> 3, container_type |-> "40HC"] :
         t \in TablesOf(CardRows, MaxCards), o \in {1, 2} }

ResolverInit == \E x \in ResolverInputs : CallInit("find_rate_card", x)

ResolveRate ==
    LET x == loc[1].arg
    IN  Return("find_rate_card",
               find_rate_card(x.cards, x.ports, x.origin_port_id, x.dest_port_id,
                              x.container_type))

ResolverSpec == ResolverInit /\ [][ResolveRate]_vars

\* routes with a port id that is not in the ports table (the foreign keys of
\* shipments and rate_cards are not enforced by SQLite), and cards that
\* reference such an id
UnknownOrigin == 5

UnknownDest == 6

UnknownPortCards ==
    [origin_port_id : {1, UnknownOrigin}, destination_port_id : {3, UnknownDest},
     container_type : {"40HC"}, effective_from : {1, 2}, is_active : BOOLEAN]

UnknownPortInputs ==
    { [cards |-> WithCardIds(t), ports |-> ResolverPorts, origin_port_id |-> r[1],
       dest_port_id |-> r[2], container_type |-> "40HC"] :
         t \in TablesOf(UnknownPortCards, MaxCards),
         r \in { <<UnknownOrigin, 3>>, <<1, UnknownDest>>, <<UnknownOrigin, UnknownDest>> } }

UnknownPortInit == \E x \in UnknownPortInputs : CallInit("find_rate_card", x)

UnknownPortSpec == UnknownPortInit /\ [][ResolveRate]_vars

----------------------------------------------------------------------------
(* Surcharge Selector on every table of at most MaxSurcharges surcharges *)

MaxSurcharges == 2

SurchargeRows ==
    [is_active : BOOLEAN, applies_to : {"FCL", "LCL", "all"},
     origin_port_id : {None, Some(1)}, destination_port_id : {None, Some(3)}]

\* the rows with a charge code of their own
WithChargeCodes(t) ==
    [k \in 1..Len(t) |->
        [charge_code |-> ChargeCodeOrder[k], calculation_type |-> "fixed",
         amount |-> 1000 * k, applies_to |-> t[k].applies_to,
         origin_port_id |-> t[k].origin_port_id,
         destination_port_id |-> t[k].destination_port_id,
         is_active |-> t[k].is_active]]

SelectorInputs ==
    { [surcharges |-> WithChargeCodes(t), origin_port_id |-> o, dest_port_id |-> d,
       container_type |-> ct] :
         t \in TablesOf(SurchargeRows, MaxSurcharges), o \in {1, 2}, d \in {3, 4},
         ct \in {"40HC", "LCL", "45HQ"} }

SelectorInit == \E x \in SelectorInputs : CallInit("get_applicable_surcharges", x)

SelectSurcharges ==
    LET x == loc[1].arg
    IN  Return("get_applicable_surcharges",
               get_applicable_surcharges(x.surcharges, x.origin_port_id,
                                         x.dest_port_id, x.container_type))

SelectorSpec == SelectorInit /\ [][SelectSurcharges]_vars

----------------------------------------------------------------------------
(* The Charge Calculator alone: calculate_line_items applied once to a
   shipment, a rate card and a list of surcharge rows.  charge_code is not
   unique in the surcharges table, so two rows of a list may share a code. *)

MaxLines == 3

CalcSurcharges ==
    { [charge_code |-> "DOC_FEE",    calculation_type |-> "fixed",         amount |-> 7500],
      [charge_code |-> "DOC_FEE",    calculation_type |-> "fixed",         amount |-> 5000],
      [charge_code |-> "LCL_MIN",    calculation_type |-> "fixed",         amount |-> 12000],
      [charge_code |-> "BAF",        calculation_type |-> "per_container", amount |-> 35000],
      [charge_code |-> "CFS_ORIGIN", calculation_type |-> "per_cbm",       amount |-> 1500],
      [charge_code |-> "CAF",        calculation_type |-> "percentage",    amount |-> 300] }

\* lists of distinct rows, in every order
SurchargeLists ==
    { t \in TablesOf(CalcSurcharges, MaxLines) :
        \A i, j \in 1..Len(t) : i # j => t[i] # t[j] }

CalcShipments ==
    [container_type : FCL_TYPES \cup {"LCL"},
     container_count : {None, Some(0), Some(2), Some(-1)},
     cbm : {None, Some(5), Some(11), Some(15)}]

CalcRateCards == [base_ocean_freight : {8000, 9106, 10909}]

CalcInputs ==
    [shipment : CalcShipments, rate_card : CalcRateCards, surcharges : SurchargeLists]

CalcInit == \E x \in CalcInputs : CallInit("calculate_line_items", x)

CalculateLines ==
    LET x == loc[1].arg
    IN  Return("calculate_line_items",
               calculate_line_items(x.shipment, x.rate_card, x.surcharges))

CalcSpec == CalcInit /\ [][CalculateLines]_vars

----------------------------------------------------------------------------
(* Invoice Numbering alone: get_next_invoice_number applied once to a table
   of invoices.  The numbers of a table are pairwise distinct (unique index),
   and the table is in no particular order. *)

MaxNumbers == 3

NumberPool ==
    { [year |-> y, seg |-> FormatSequence(n)] :
        y \in {BillingYear - 1, BillingYear},
        n \in {1, 7, LastOfWidth, LastOfWidth + 1} }

NumberTables ==
    { t \in TablesOf([invoice_number : NumberPool], MaxNumbers) :
        \A i, j \in 1..Len(t) : i # j => t[i] # t[j] }

NumberingInit == \E t \in NumberTables : CallInit("get_next_invoice_number", t)

NextNumber ==
    Return("get_next_invoice_number", get_next_invoice_number(loc[1].arg))

NumberingSpec == NumberingInit /\ [][NextNumber]_vars

----------------------------------------------------------------------------
(* Properties *)

InvoiceIds == 1..Len(invoices)

InvoicesOfShipment(s) == { k \in InvoiceIds : invoices[k].shipment_id = s }

LinesOfInvoice(k) == SelectSeq(lines, LAMBDA l : l.invoice_id = k)

PaidTo(k) ==
    SumSeq([j \in 1..Len(payments) |->
              IF payments[j].invoice_id = k THEN payments[j].amount ELSE 0])

Settled == \A w \in Workers : pc[w] \in {"idle", "done"}

\* the shipments for which Generate succeeds on an empty store
BillableAlone ==
    { s \in ShipmentArgs : generate_invoice(Catalog, << >>, << >>, 0, s).outcome = "ok" }

\* C1: under any interleaving of concurrent Generate requests for one
\* shipment, at most one invoice of that shipment is stored, and at most one
\* of the requests succeeds (a loser stores no invoice and no line).
C1_OneInvoicePerShipment ==
    \A s \in ShipmentArgs :
        /\ Cardinality(InvoicesOfShipment(s)) <= 1
        /\ Cardinality({ w \in Workers : /\ loc[w].op = "generate"
                                         /\ loc[w].arg = s
                                         /\ loc[w].outcome = "ok" }) <= 1

\* C2: in every reachable state of concurrent Generate requests, no two
\* stored invoices carry the same invoice number.
C2_NumbersDistinct ==
    \A j \in InvoiceIds : \A k \in InvoiceIds :
        j # k => invoices[j].invoice_number # invoices[k].invoice_number

\* two requests read the same greatest number; one stored its invoice and
\* the other was rejected by the unique index
C2_Witness ==
    \E v \in Workers : \E w \in Workers :
        /\ loc[v].outcome = "ok"
        /\ loc[w].outcome = "integrity_error"
        /\ loc[v].number = loc[w].number
        /\ \E k \in InvoiceIds : Some(invoices[k].invoice_number) = loc[v].number

\* C3: once concurrent payments on one invoice have all committed, its
\* amount_paid is the sum of the payments recorded for it (it was 0 before),
\* and balance_due and status are the ones computed from that amount.
C3_NoLostPayment ==
    (Settled /\ \A w \in Workers : loc[w].op # "check_overdue") =>
        \A k \in InvoiceIds :
            /\ invoices[k].amount_paid = PaidTo(k)
            /\ invoices[k].balance_due =
                   Max2(0, invoices[k].total_amount - invoices[k].amount_paid)
            /\ invoices[k].balance_due = 0 => invoices[k].status = "paid"

\* C4: run alone, Generate for a shipment that has an invoice of any status
\* returns the conflict and changes neither invoices nor lines; and after any
\* sequence of Generate, batch generation, payments, sweeps, voids and sends
\* every shipment has at most one invoice.
C4_ConflictKeepsInvoice ==
    /\ [](\A s \in ShipmentArgs : Cardinality(InvoicesOfShipment(s)) <= 1)
    /\ [][\A s \in ShipmentArgs :
            (Generate(s) /\ InvoicesOfShipment(s) # {}) =>
                /\ last'.outcome = "already_invoiced"
                /\ invoices' = invoices
                /\ lines' = lines]_vars

\* Generate was refused for a shipment whose only invoice is void
C4_Witness ==
    /\ last.outcome = "already_invoiced"
    /\ Len(invoices) = 1
    /\ invoices[1].status = "void"

\* C5: a payment applied to an invoice whose status is paid or void leaves
\* the status as it was, and balance_due is never negative.
C5_PaymentKeepsPaidAndVoid ==
    [][\A i \in InvoiceIds : \A a \in PayAmounts :
         ((CreatePayment(i, a) \/ RecordPayment(i, a))
            /\ invoices[i].status \in {"paid", "void"}) =>
                /\ invoices'[i].status = invoices[i].status
                /\ invoices'[i].balance_due >= 0]_vars

\* C6: once an invoice is void it stays void under Generate, batch
\* generation, payments, sweeps and voids.
C6_VoidIsTerminal ==
    [][( \/ \E s \in ShipmentArgs : Generate(s)
         \/ GenerateBatch
         \/ \E i \in InvoiceArgs(invoices), a \in PayAmounts :
               CreatePayment(i, a) \/ RecordPayment(i, a)
         \/ CheckOverdue
         \/ \E i \in InvoiceArgs(invoices) : VoidInvoice(i) ) =>
            \A k \in InvoiceIds :
                invoices[k].status = "void" => invoices'[k].status = "void"]_vars

\* C7: in every state reached by Generate, payments, sweeps, voids and sends,
\* every invoice has balance_due = max(0, total_amount - amount_paid).
C7_BalanceDue ==
    \A k \in InvoiceIds :
        invoices[k].balance_due =
            Max2(0, invoices[k].total_amount - invoices[k].amount_paid)

\* an invoice has been paid more than its total
C7_Witness ==
    \E k \in InvoiceIds :
        /\ invoices[k].amount_paid > invoices[k].total_amount
        /\ PaidTo(k) = invoices[k].amount_paid

\* C8: a payment on an existing invoice appends one payment record, adds the
\* amount to amount_paid and sets the status to paid when the recomputed
\* balance is zero, else to partial when amount_paid is above zero, else
\* leaves it; it never sets sent; both entry points give the same invoice.
C8_PaymentEffect ==
    [][\A i \in InvoiceIds : \A a \in PayAmounts :
         (CreatePayment(i, a) \/ RecordPayment(i, a)) =>
            LET paid == invoices[i].amount_paid + a
                balance == Max2(0, invoices[i].total_amount - paid)
            IN  /\ payments' = Append(payments, [invoice_id |-> i, amount |-> a])
                /\ invoices'[i].amount_paid = paid
                /\ invoices'[i].status =
                      IF balance = 0 THEN "paid"
                      ELSE IF paid > 0 THEN "partial"
                      ELSE invoices[i].status
                /\ invoices'[i].status = "sent" => invoices[i].status = "sent"]_vars

\* C9: a sweep sets to overdue exactly the invoices that are sent and due
\* before today, leaves every other invoice and every other column as it
\* was, returns the number of invoices it changed, and leaves nothing for a
\* sweep that follows on the same date.
C9_SweepExact ==
    [][CheckOverdue =>
         /\ Len(invoices') = Len(invoices)
         /\ \A k \in InvoiceIds :
               invoices'[k] =
                  IF invoices[k].status = "sent" /\ invoices[k].due_date < today
                  THEN [invoices[k] EXCEPT !.status = "overdue"]
                  ELSE invoices[k]
         /\ last'.count = Cardinality({ k \in InvoiceIds :
                              /\ invoices[k].status = "sent"
                              /\ invoices[k].due_date < today })
         /\ { k \in InvoiceIds : /\ invoices'[k].status = "sent"
                                 /\ invoices'[k].due_date < today' } = {}
         /\ lines' = lines
         /\ payments' = payments]_vars

\* a sweep has changed one invoice and passed over a partial one past due
C9_Witness ==
    /\ last.count = 1
    /\ Len(invoices) = 2
    /\ \E k \in InvoiceIds : invoices[k].status = "overdue"
    /\ \E k \in InvoiceIds :
          invoices[k].status = "partial" /\ invoices[k].due_date < today

\* C10: two concurrent Generate requests for two distinct shipments, each of
\* which succeeds when run alone, both succeed, with distinct numbers.
C10_DistinctShipmentsBothSucceed ==
    \A v \in Workers : \A w \in Workers :
        ( /\ v # w
          /\ pc[v] = "done" /\ pc[w] = "done"
          /\ loc[v].op = "generate" /\ loc[w].op = "generate"
          /\ loc[v].arg # loc[w].arg
          /\ loc[v].arg \in BillableAlone /\ loc[w].arg \in BillableAlone ) =>
              /\ loc[v].outcome = "ok" /\ loc[w].outcome = "ok"
              /\ loc[v].number # loc[w].number

\* the lines generate_invoice stores for the invoice of a shipment
ExpectedLines(k) ==
    LET shipment == RowById(Catalog.shipments, invoices[k].shipment_id)[1]
    IN  NewLines(k, GeneratePlan(Catalog, shipment).line_items)

\* C11: in every state another request can observe, also after a Generate
\* that ended between its flush and its commit, each stored invoice has all
\* of its lines and each stored line belongs to a stored invoice.
C11_InvoiceWithLines ==
    /\ \A k \in InvoiceIds : LinesOfInvoice(k) = ExpectedLines(k)
    /\ \A j \in 1..Len(lines) : lines[j].invoice_id \in InvoiceIds

\* one request ended after its flush without committing, another one stored
\* its invoice
C11_Witness ==
    /\ \E w \in Workers : loc[w].outcome = "aborted"
    /\ \E w \in Workers : loc[w].outcome = "ok"
    /\ Len(invoices) = 1
    /\ lines # << >>

\* why Generate for shipment s is refused
GenerateRefused(s) ==
    LET shipment == RowById(Catalog.shipments, s)
    IN  \/ IsNone(shipment)
        \/ InvoicesOfShipment(s) # {}
        \/ IsNone(BillToClient(Catalog, shipment[1]))
        \/ IsNone(find_rate_card(Catalog.rate_cards, Catalog.ports,
                     shipment[1].origin_port_id, shipment[1].destination_port_id,
                     shipment[1].container_type))

\* C12: Generate for a shipment that is missing, already invoiced, without a
\* bill-to client or without a rate card fails and changes no table; a
\* payment on a missing invoice fails and changes no table.
C12_FailureKeepsState ==
    [][/\ \A s \in ShipmentArgs :
             (Generate(s) /\ GenerateRefused(s)) =>
                 /\ last'.outcome \in {"shipment_not_found", "already_invoiced",
                                       "client_not_found", "no_rate_card"}
                 /\ UNCHANGED <<invoices, lines, payments>>
       /\ \A i \in InvoiceArgs(invoices) : \A a \in PayAmounts :
             ((CreatePayment(i, a) \/ RecordPayment(i, a)) /\ i \notin InvoiceIds) =>
                 /\ last'.outcome = "not_found"
                 /\ UNCHANGED <<invoices, lines, payments>>]_vars

\* Generate was refused for want of a rate card while an invoice and a
\* payment were stored
C12_Witness ==
    /\ last.outcome = "no_rate_card"
    /\ invoices # << >>
    /\ payments # << >>

\* the shipments of the catalog that have no invoice
UnbilledIds ==
    { Catalog.shipments[j].id : j \in 1..Len(Catalog.shipments) }
        \ { invoices[k].shipment_id : k \in InvoiceIds }

\* C13: the batch attempts Generate for every shipment without an invoice and
\* does not end on a failure of one of them: when it ends, each of these
\* shipments for which Generate alone succeeds has exactly one invoice and is
\* listed as generated, and each of the others is listed as an error.
C13_BatchReportsEveryShipment ==
    [][GenerateBatch =>
         LET r == generate_batch(Catalog, invoices, lines, today)
             listed(l) == { l[j] : j \in 1..Len(l) }
         IN  /\ ~r.aborted
             /\ last'.outcome = "ok"
             /\ \A s \in UnbilledIds :
                   IF generate_invoice(Catalog, invoices, lines, today, s).outcome = "ok"
                   THEN /\ s \in listed(r.generated)
                        /\ s \notin listed(r.errors)
                        /\ Cardinality({ k \in 1..Len(invoices') :
                                           invoices'[k].shipment_id = s }) = 1
                   ELSE /\ s \in listed(r.errors)
                        /\ s \notin listed(r.generated)]_vars

\* C14: right after a successful Generate the new invoice has subtotal equal
\* to the sum of its lines' totals, tax_amount 0, total_amount = subtotal +
\* tax_amount, amount_paid 0, balance_due = total_amount and status draft,
\* and its lines carry the positions 1..n in the order of the calculator.
C14_NewInvoiceTotals ==
    [][\A s \in ShipmentArgs :
         (Generate(s) /\ last'.outcome = "ok") =>
            LET k == Len(invoices')
                inv == invoices'[k]
                ls == SelectSeq(lines', LAMBDA l : l.invoice_id = k)
                shipment == RowById(Catalog.shipments, s)[1]
                items == calculate_line_items(shipment,
                            find_rate_card(Catalog.rate_cards, Catalog.ports,
                                shipment.origin_port_id, shipment.destination_port_id,
                                shipment.container_type)[1],
                            get_applicable_surcharges(Catalog.surcharges,
                                shipment.origin_port_id, shipment.destination_port_id,
                                shipment.container_type))
            IN  /\ k = Len(invoices) + 1
                /\ inv.shipment_id = s
                /\ inv.subtotal = SumSeq([j \in 1..Len(ls) |-> ls[j].line_total])
                /\ inv.tax_amount = 0
                /\ inv.total_amount = inv.subtotal + inv.tax_amount
                /\ inv.amount_paid = 0
                /\ inv.balance_due = inv.total_amount
                /\ inv.status = "draft"
                /\ Len(ls) = Len(items)
                /\ \A j \in 1..Len(ls) :
                      /\ ls[j].line_order = j
                      /\ ls[j].charge_code = items[j].charge_code
                      /\ ls[j].quantity = items[j].quantity
                      /\ ls[j].unit_price = items[j].unit_price
                      /\ ls[j].line_total = items[j].line_total]_vars

\* both billable shipments have been invoiced one at a time and nothing else
\* has touched their invoices
C14_Witness ==
    /\ Len(invoices) = 2
    /\ invoices[1].shipment_id = 1
    /\ invoices[2].shipment_id = 2
    /\ \A k \in InvoiceIds : invoices[k].status = "draft" /\ invoices[k].amount_paid = 0
    /\ Len(LinesOfInvoice(2)) = 6

\* C15: the invoice Generate creates is due payment_terms_days after its
\* issue date for every stored value of the column, 0 included, and 30 days
\* after it only when the column is not set; it bills the consignee when
\* bill_to is consignee and the shipper otherwise.
C15_DueDateAndClient ==
    [][\A s \in ShipmentArgs : \A terms \in TermsValues : \A bill_to \in BillToValues :
         (GenerateBilled(s, terms, bill_to) /\ last'.outcome = "ok") =>
            LET inv == invoices'[Len(invoices')]
                shipment == RowById(Catalog.shipments, s)[1]
            IN  /\ inv.issue_date = today
                /\ inv.due_date = inv.issue_date +
                      (IF terms = None THEN DefaultPaymentTerms ELSE terms[1])
                /\ inv.client_id = IF bill_to = "consignee"
                                   THEN shipment.consignee_id
                                   ELSE shipment.shipper_id]_vars

\* the row of a port of the input
PortRow(x, port_id) ==
    CHOOSE k \in 1..Len(x.ports) : x.ports[k].id = port_id

\* the cards of tier n of the cascade for the input x
Tier(x, n) ==
    LET region(p) == x.ports[PortRow(x, p)].region
        usable(c) == c.is_active /\ c.container_type = x.container_type
    IN  { k \in 1..Len(x.cards) :
            LET c == x.cards[k]
            IN  /\ usable(c)
                /\ IF n = 1 THEN c.origin_port_id = x.origin_port_id
                   ELSE /\ \E j \in 1..Len(x.ports) : x.ports[j].id = c.origin_port_id
                        /\ region(c.origin_port_id) = region(x.origin_port_id)
                /\ IF n = 3
                   THEN /\ \E j \in 1..Len(x.ports) : x.ports[j].id = c.destination_port_id
                        /\ region(c.destination_port_id) = region(x.dest_port_id)
                   ELSE c.destination_port_id = x.dest_port_id }

\* C16: with both ports resolvable the resolver returns a card of the first
\* non-empty tier (exact route; origin region to exact destination; origin
\* region to destination region), active, of the requested type and with the
\* greatest effective_from of that tier, and nothing exactly when the three
\* tiers are empty.
C16_TierCascade ==
    Returned("find_rate_card") =>
        LET x == loc[1].arg
            r == loc[1].loaded
            first == IF Tier(x, 1) # {} THEN Tier(x, 1)
                     ELSE IF Tier(x, 2) # {} THEN Tier(x, 2) ELSE Tier(x, 3)
        IN  /\ IsNone(r) <=> first = {}
            /\ ~IsNone(r) =>
                  /\ \E k \in first : x.cards[k] = r[1]
                  /\ r[1].is_active
                  /\ r[1].container_type = x.container_type
                  /\ \A k \in first : x.cards[k].effective_from <= r[1].effective_from

\* the card returned is the later of two cards of the third tier, the first
\* two tiers being empty
C16_Witness ==
    /\ Returned("find_rate_card")
    /\ Tier(loc[1].arg, 1) = {}
    /\ Tier(loc[1].arg, 2) = {}
    /\ Cardinality(Tier(loc[1].arg, 3)) = 2
    /\ loc[1].loaded = Some(loc[1].arg.cards[2])
    /\ loc[1].arg.cards[1].effective_from < loc[1].arg.cards[2].effective_from

\* C17: the selector returns exactly the surcharges that are active, apply to
\* the class of the container type (FCL for 20GP, 40GP and 40HC, LCL for any
\* other type) or to all, and whose origin and destination filters are unset
\* or equal to the route's ports.
C17_SelectorExact ==
    Returned("get_applicable_surcharges") =>
        LET x == loc[1].arg
            r == loc[1].loaded
            class == IF x.container_type \in {"20GP", "40GP", "40HC"}
                     THEN "FCL" ELSE "LCL"
            applicable(s) ==
                /\ s.is_active
                /\ (s.applies_to = class \/ s.applies_to = "all")
                /\ (s.origin_port_id = None \/ s.origin_port_id = Some(x.origin_port_id))
                /\ (s.destination_port_id = None
                      \/ s.destination_port_id = Some(x.dest_port_id))
        IN  /\ \A k \in 1..Len(x.surcharges) :
                  applicable(x.surcharges[k]) <=>
                      \E j \in 1..Len(r) : r[j] = x.surcharges[k]
            /\ \A j \in 1..Len(r) : \E k \in 1..Len(x.surcharges) : r[j] = x.surcharges[k]
            /\ Len(r) <= Len(x.surcharges)

\* of two surcharges the first is filtered out by its class and the second is
\* returned for a container type outside the three FCL types
C17_Witness ==
    /\ Returned("get_applicable_surcharges")
    /\ loc[1].arg.container_type = "45HQ"
    /\ Len(loc[1].arg.surcharges) = 2
    /\ loc[1].arg.surcharges[1].is_active
    /\ loc[1].arg.surcharges[1].applies_to = "FCL"
    /\ loc[1].loaded = << loc[1].arg.surcharges[2] >>

\* the same rows of a surcharge list in every order
Reorderings(s) ==
    { t \in [1..Len(s) -> { s[i] : i \in 1..Len(s) }] :
        \A i, j \in 1..Len(s) : i # j => t[i] # t[j] }

\* C18: for every shipment, rate card and surcharge list, lists in which two
\* surcharges share a charge code included, the calculator's output has the
\* ocean-freight line first and the charge codes of the remaining lines
\* strictly ascending, and every permutation of the list gives the same output.
C18_OrderedAndPermutationFree ==
    Returned("calculate_line_items") =>
        LET x == loc[1].arg
            r == loc[1].loaded
        IN  /\ r[1].charge_code = "OFR"
            /\ \A j \in 2..(Len(r) - 1) :
                 CodeRank(r[j].charge_code) < CodeRank(r[j + 1].charge_code)
            /\ \A p \in Reorderings(x.surcharges) :
                 calculate_line_items(x.shipment, x.rate_card, p) = r

\* the sequences of the current year in a table of invoices
YearSequences(invs) ==
    { DigitsValue(invs[k].invoice_number.seg) :
        k \in { j \in 1..Len(invs) : invs[j].invoice_number.year = BillingYear } }

\* C19: for every set of existing invoice numbers, the numbering returns
\* sequence 0001 when no number of the current year exists and otherwise one
\* more than the largest existing sequence of the current year, zero-padded
\* to 4 digits; the number returned is never one already in use.
C19_NextAfterLargest ==
    Returned("get_next_invoice_number") =>
        LET invs == loc[1].arg
            seqs == YearSequences(invs)
            r == loc[1].loaded
        IN  /\ r.year = BillingYear
            /\ seqs = {} => r.seg = FormatSequence(1)
            /\ seqs # {} =>
                 r.seg = FormatSequence(1 + CHOOSE m \in seqs : \A o \in seqs : o <= m)
            /\ \A k \in 1..Len(invs) : invs[k].invoice_number # r

\* the lines of an output that carry a charge code
LinesOfCode(r, code) == SelectSeq(r, LAMBDA l : l.charge_code = code)

\* C20: for an LCL shipment whose surcharges include the fixed surcharge
\* LCL_MIN, the calculator omits the LCL_MIN line when the ocean-freight line
\* total is at least 120.00 and includes it, with total equal to the surcharge
\* amount, when the line total is below 120.00; the ocean-freight quantity is
\* max(cbm, 1.0).
C20_LclMinimum ==
    Returned("calculate_line_items") =>
        LET x == loc[1].arg
            r == loc[1].loaded
            mins == SelectSeq(x.surcharges,
                              LAMBDA s : s.charge_code = "LCL_MIN"
                                         /\ s.calculation_type = "fixed")
        IN  (x.shipment.container_type = "LCL" /\ mins # << >>) =>
              /\ r[1].quantity = Max2(OrDefault(x.shipment.cbm, 0), 10)
              /\ r[1].line_total >= LCL_MIN_THRESHOLD * 100
                   => LinesOfCode(r, "LCL_MIN") = << >>
              /\ r[1].line_total < LCL_MIN_THRESHOLD * 100
                   => /\ Len(LinesOfCode(r, "LCL_MIN")) = 1
                      /\ LinesOfCode(r, "LCL_MIN")[1].line_total = mins[1].amount

\* C21: no line with charge code LCL_MIN appears in the calculator's output
\* for an FCL shipment (20GP, 40GP or 40HC), whatever surcharges it is given,
\* an LCL_MIN surcharge that applies to all container categories included.
C21_NoLclMinimumOnFcl ==
    Returned("calculate_line_items") =>
        (loc[1].arg.shipment.container_type \in FCL_TYPES
            => LinesOfCode(loc[1].loaded, "LCL_MIN") = << >>)

\* C22: for every FCL shipment the ocean-freight line has quantity
\* max(container_count, 1), unit price equal to the rate card's base amount
\* and line total quantity times unit price, for a container_count that is
\* zero, unset or negative as well.
C22_FclOceanFreight ==
    Returned("calculate_line_items") =>
        LET x == loc[1].arg
            ofr == loc[1].loaded[1]
            count == IF IsNone(x.shipment.container_count) THEN 1
                     ELSE Max2(x.shipment.container_count[1], 1)
        IN  x.shipment.container_type \in FCL_TYPES =>
              /\ ofr.charge_code = "OFR"
              /\ ofr.quantity = count * 10
              /\ ofr.unit_price = x.rate_card.base_ocean_freight
              /\ ofr.line_total = count * x.rate_card.base_ocean_freight

\* the rows of a surcharge list of one calculation type
RowsOfType(surcharges, type) ==
    SelectSeq(surcharges, LAMBDA s : s.calculation_type = type)

\* the lines of an output billed for the rows of one calculation type
LinesOfType(r, surcharges, type) ==
    SelectSeq(Tail(r), LAMBDA l :
        \E k \in 1..Len(surcharges) :
            /\ surcharges[k].calculation_type = type
            /\ surcharges[k].charge_code = l.charge_code)

GreatestUnparsable(invs) ==
    LET m == MaxInvoiceNumber(invs)
    IN  ~IsNone(m) /\ ~IsDigits(m[1])

\* C24: when the greatest existing number of the current year ends in a
\* segment that cannot be parsed, the numbering returns sequence 0001, and
\* the Generate that uses this number stores no invoice whose number is
\* already in use.
C24_CorruptNumber ==
    [][GreatestUnparsable(invoices) =>
         /\ get_next_invoice_number(invoices) = InvoiceNumber(1)
         /\ \A k \in (Len(invoices) + 1)..Len(invoices') :
              \A j \in 1..(k - 1) :
                 invoices'[j].invoice_number # invoices'[k].invoice_number]_vars

C24_Witness ==
    /\ GreatestUnparsable(invoices)
    /\ last.outcome = "integrity_error"
    /\ \E k \in 1..Len(invoices) : invoices[k].invoice_number = InvoiceNumber(1)

\* a port id of the route has no row in the ports table
Unresolvable(x, port_id) == IsNone(PortById(x.ports, port_id))

\* C25: when the origin port or the destination port of the route cannot be
\* resolved, the resolver returns no rate card, whatever cards are stored,
\* cards that reference the unresolvable port id included.
C25_UnknownPortNoCard ==
    Returned("find_rate_card") =>
        LET x == loc[1].arg
        IN  (Unresolvable(x, x.origin_port_id) \/ Unresolvable(x, x.dest_port_id))
                => IsNone(loc[1].loaded)

\* C26: a percentage surcharge line has quantity 1 and unit price and total
\* equal to (amount/100) times the ocean-freight line total, rounded to 2
\* decimals, the base being the rounded total stored on the ocean-freight
\* line; the same total is the one compared with the LCL_MIN threshold.
C26_PercentageOfRoundedTotal ==
    Returned("calculate_line_items") =>
        LET x == loc[1].arg
            r == loc[1].loaded
            ofr == r[1]
            percentage == LinesOfType(r, x.surcharges, "percentage")
        IN  /\ Len(percentage) = Len(RowsOfType(x.surcharges, "percentage"))
            /\ \A k \in 1..Len(percentage) :
                 /\ percentage[k].quantity = 10
                 /\ percentage[k].unit_price = percentage[k].line_total
                 /\ \E j \in 1..Len(x.surcharges) :
                      /\ x.surcharges[j].charge_code = percentage[k].charge_code
                      /\ percentage[k].line_total =
                           RoundDiv(x.surcharges[j].amount * ofr.line_total, 10000)
            /\ (x.shipment.container_type = "LCL"
                  /\ \E j \in 1..Len(x.surcharges) :
                       x.surcharges[j].charge_code = "LCL_MIN")
                 => (LinesOfCode(r, "LCL_MIN") = << >>
                       <=> ofr.line_total >= LCL_MIN_THRESHOLD * 100)

\* the invoice after a payment run alone
PaidAlone(invoice, op, amount) ==
    IF op = "create_payment" THEN create_payment(invoice, amount)
    ELSE record_payment(invoice, amount)

\* the invoice after a sweep run alone
SweptAlone(invoice, day) ==
    IF OverdueIds(<< invoice >>, day) # {}
    THEN [invoice EXCEPT !.status = "overdue"] ELSE invoice

\* C27: when one sweep and one payment on the same invoice have run, in any
\* interleaving, the invoice is as one of the two serial orders leaves it, so
\* a sweep never overwrites the status a payment committed after the sweep
\* read the invoice as sent.
C27_SweepPaymentSerial ==
    \A w, v \in Workers :
        ( /\ pc[w] = "done" /\ loc[w].op = "check_overdue"
          /\ pc[v] = "done" /\ loc[v].op \in {"create_payment", "record_payment"}
          /\ loc[v].outcome = "ok"
          /\ \A u \in Workers \ {w, v} : pc[u] = "idle" )
        => LET before == SentStore.invoices[loc[v].arg]
               after == invoices[loc[v].arg]
           IN  \/ after = SweptAlone(PaidAlone(before, loc[v].op, loc[v].amount), today)
               \/ after = PaidAlone(SweptAlone(before, today), loc[v].op, loc[v].amount)

\* the columns of an invoice that are fixed when it is created
Created(invoice) ==
    [f \in {"invoice_number", "shipment_id", "subtotal", "tax_amount", "total_amount"}
        |-> invoice[f]]

\* C28: once an invoice exists no operation changes its number, shipment,
\* subtotal, tax_amount, total_amount or its lines, and no payment record is
\* changed or removed; Void, Sweep Overdue and the sent write-back change
\* nothing but the status; Void succeeds from every current status.
C28_FrameOfInvoice ==
    [][/\ Len(invoices') >= Len(invoices)
       /\ \A k \in InvoiceIds : Created(invoices'[k]) = Created(invoices[k])
       /\ Len(lines') >= Len(lines)
       /\ \A j \in 1..Len(lines) : lines'[j] = lines[j]
       /\ \A j \in (Len(lines) + 1)..Len(lines') : lines'[j].invoice_id \notin InvoiceIds
       /\ Len(payments') >= Len(payments)
       /\ \A j \in 1..Len(payments) : payments'[j] = payments[j]
       /\ (CheckOverdue \/ \E i \in InvoiceArgs(invoices) : VoidInvoice(i) \/ SendInvoice(i))
            => /\ Len(invoices') = Len(invoices)
               /\ \A k \in InvoiceIds :
                    invoices'[k] = [invoices[k] EXCEPT !.status = invoices'[k].status]
       /\ \A i \in InvoiceIds :
            VoidInvoice(i) => invoices'[i].status = "void" /\ last'.outcome = "ok"]_vars

\* an invoice that was voided after a payment had been applied to it
C28_Witness ==
    \E k \in InvoiceIds :
        /\ invoices[k].status = "void"
        /\ invoices[k].amount_paid > 0
        /\ invoices[k].balance_due = invoices[k].total_amount - invoices[k].amount_paid

\* C29: an invoice's status becomes sent only from draft and overdue only
\* from sent: the sent write-back applied to an invoice that is partial, paid,
\* overdue or void leaves that status, and only Sweep Overdue sets overdue.
C29_SentFromDraftOnly ==
    [][\A k \in InvoiceIds :
         /\ (invoices'[k].status = "sent" /\ invoices[k].status # "sent")
               => invoices[k].status = "draft"
         /\ (invoices'[k].status = "overdue" /\ invoices[k].status # "overdue")
               => (invoices[k].status = "sent" /\ CheckOverdue)]_vars

\* C30: in every state reached by a sequential series of Generate, payments,
\* sweeps, voids and sends from an empty store, each invoice's amount_paid is
\* the sum of the amounts of its payment records, and an invoice whose status
\* is paid has balance_due 0.
C30_LedgerConsistent ==
    \A k \in InvoiceIds :
        /\ invoices[k].amount_paid = PaidTo(k)
        /\ invoices[k].status = "paid" => invoices[k].balance_due = 0

====
